---- MODULE Spec2Model ----
(***************************************************************************)
(* A model of the expression-language interpreter of cache-picker:         *)
(*   - the recursive-descent / precedence-climbing Parser                  *)
(*     (src/src/script/code/Parser.ts),                                    *)
(*   - the lexical environment Scope (src/src/test/code/CodeTestUtils.ts), *)
(*   - the Operations routines (src/src/script/code/Operations.ts).        *)
(* The Tokenizer, the Context, the unit registry and Utils are not part of *)
(* the sources at hand; they are modelled from their documented contract.  *)
(***************************************************************************)
EXTENDS Integers, Sequences, FiniteSets, TLC

VARIABLES
    tokens,      \* the token stream the Tokenizer delivers, closed by the end token
    procedures,  \* names for which context.isProcedure holds
    variables,   \* names for which context.isVariable holds
    registry,    \* symbols for which Units.exists holds
    pc,          \* "ready" before parseStatement was called, "parsed" after
    result,      \* what parseStatement returned or raised
    scopes,      \* the Scope objects: scopes[i] is the scope with identity i
    outcome,     \* what the last call of a Scope method returned or raised
    quantity     \* what Quantity.parse made of the input

vars == <<tokens, procedures, variables, registry, pc, result, scopes, outcome, quantity>>

parserVars == <<tokens, procedures, variables, registry, pc, result, quantity>>

-----------------------------------------------------------------------------
(* Bounds of the model.                                                    *)

MaxOps == 3     \* binary operators in an operator chain
MaxLen == 3     \* tokens (without the end token) of a free-form input
MaxScopes == 2  \* Scope objects alive at a time, the one of a running call apart
MaxChain == 4   \* tokens (without the end token) of a quantity literal
MaxEntries == 2 \* entries of a map literal
MaxBracket == 5 \* tokens (without the end token) of an input of brackets
MaxString == 9  \* tokens of a string literal
MaxUnitLen == 4 \* tokens (without the end token) of an input of units and operators
MaxOperations == 1 \* binary operators of an input whose operations are evaluated
MaxMixed == 3   \* tokens (without the end token) of an input over all kinds of tokens

-----------------------------------------------------------------------------
(* Tokens.  A token has a type and a text; its position in the stream      *)
(* stands for its line and column.                                         *)

Tok(type, s) == [type |-> type, s |-> s]

EndToken == Tok("end", "")

OperatorSymbols == {"+", "-", "*", "/", "^", "mod"}

(* enum Precedence *)
Undefined == 0
Addition == 11
Multiplication == 12
Power == 13

-----------------------------------------------------------------------------
(* Tokenizer: a cursor over the token stream.  tk.pos is the index of the  *)
(* current token, tk.mode the mode it was requested in, tk.log the modes   *)
(* of all requests so far.                                                 *)

\* What the lexeme at a position is delivered as in the given mode: inside a
\* string everything but the delimiter, a reference, "${" and the end is text.
Lex(lexeme, mode) ==
    IF mode = "string" /\ lexeme.type \notin {"delimiter", "reference", "end", "string"}
                       /\ ~(lexeme.type = "brackets" /\ lexeme.s = "${")
    THEN Tok("string", lexeme.s)
    ELSE lexeme

TokenizerNew == [pos |-> 0, mode |-> "expression", log |-> <<>>]

Advance(tk, mode) ==
    [pos |-> IF tk.pos < Len(tokens) THEN tk.pos + 1 ELSE tk.pos,
     mode |-> mode,
     log |-> Append(tk.log, mode)]

nextExpressionToken(tk) == Advance(tk, "expression")

nextStringToken(tk) == Advance(tk, "string")

\* tokenizer.get(): the current token, with its position
get(tk) ==
    LET t == Lex(tokens[tk.pos], tk.mode)
    IN  [type |-> t.type, s |-> t.s, pos |-> tk.pos]

\* tokenizer.lookAheadExpressionToken(): the token after the current one,
\* read in expression mode without consuming anything
lookAheadExpressionToken(tk) ==
    LET p == IF tk.pos < Len(tokens) THEN tk.pos + 1 ELSE tk.pos
        t == Lex(tokens[p], "expression")
    IN  [type |-> t.type, s |-> t.s, pos |-> p]

-----------------------------------------------------------------------------
(* Context and unit registry, as the parser consults them.                 *)

isProcedure(name) == name \in procedures

isVariable(name) == name \in variables

UnitsExists(symbol) == symbol \in registry

\* Units.get resolves a simple symbol or a compound assembled by parseUnit;
\* every part of such a compound is a registered symbol.
UnitsGet(unitString) == [defined |-> TRUE, symbol |-> unitString]

UtilsIsIdentifier(s) == TRUE

-----------------------------------------------------------------------------
(* Token predicates of the Parser.                                         *)

isOperator(token) == token.type = "operator"

isOperatorOf(token, operator) == token.type = "operator" /\ operator = token.s

isUnaryOperator(token) ==
    IF ~isOperator(token) THEN FALSE
    ELSE (token.s = "+") \/ (token.s = "-")

isBrackets(token, brackets) == (token.type = "brackets") /\ (brackets = token.s)

isOpeningParentheses(token) == isBrackets(token, "(")
isClosingParentheses(token) == isBrackets(token, ")")
isOpeningList(token) == isBrackets(token, "[")
isClosingList(token) == isBrackets(token, "]")
isOpeningMap(token) == isBrackets(token, "{")
isClosingMap(token) == isBrackets(token, "}")
isOpeningPlaceholder(token) == isBrackets(token, "${")
isClosingPlaceholder(token) == isBrackets(token, "}")

isIdentifier(token) ==
    IF token.type # "word" THEN FALSE ELSE UtilsIsIdentifier(token.s)

isTuple(token) == isOpeningParentheses(token)
isList(token) == isOpeningList(token)
isMap(token) == isOpeningMap(token)

isNumber(token) == token.type = "number"
isString(token) == token.type = "delimiter"
isKey(token) == isIdentifier(token) \/ isString(token)
isConstant(token) == isNumber(token) \/ isString(token)

isCall(token) ==
    IF token.type # "word" THEN FALSE ELSE isProcedure(token.s)

isAccess(token) ==
    IF token.type # "word" THEN FALSE ELSE isVariable(token.s)

isUnit(token) ==
    IF token.type \notin {"word", "delimiter", "separator", "operator"}
    THEN FALSE
    ELSE UnitsExists(token.s)

isEnd(token) == token.type = "end"

isSeparator(token, separator) == (token.type = "separator") /\ (separator = token.s)

isExpression(token) ==
    \/ isTuple(token) \/ isList(token) \/ isMap(token) \/ isConstant(token)
    \/ isCall(token) \/ isAccess(token) \/ isUnit(token)

isExpressionChain(token) == isExpression(token)

isStatement(token) == isUnaryOperator(token) \/ isExpressionChain(token)

-----------------------------------------------------------------------------
(* Commands.  Every node carries the position of the token it was built    *)
(* at, a kind, the operation or item name, the operator symbol and its     *)
(* children.                                                               *)

Command(kind, pos, name, symbol, args) ==
    [kind |-> kind, pos |-> pos, name |-> name, symbol |-> symbol, args |-> args]

NoCommand == Command("none", 0, "", "", <<>>)

RECURSIVE Nodes(_)
\* a command and all commands below it
Nodes(cmd) ==
    {cmd} \cup UNION {Nodes(cmd.args[i]) : i \in 1..Len(cmd.args)}

\* a parse function returns a command and the tokenizer after it ...
Ok(cmd, tk) == [ok |-> TRUE, cmd |-> cmd, tk |-> tk, err |-> [pos |-> 0, msg |-> "", found |-> ""]]

\* ... or throws new Error(Utils.formatError(line, column, message))
Throw(tk, token, msg) ==
    [ok |-> FALSE, cmd |-> NoCommand, tk |-> tk,
     err |-> [pos |-> token.pos, msg |-> msg, found |-> token.s]]

-----------------------------------------------------------------------------------------------------------------------------------------------------
(* The Parser.  Each parse function takes the tokenizer and returns Ok or  *)
(* Throw; the while loops of the code are the *Loop operators.             *)

RECURSIVE parseStatement(_, _)
RECURSIVE StatementLoop(_, _, _)
RECURSIVE parseExpressionChain(_)
RECURSIVE ChainLoop(_, _)
RECURSIVE parseExpression(_)
RECURSIVE StatementListLoop(_, _)
RECURSIVE parseTuple(_)
RECURSIVE parseList(_)
RECURSIVE StringLoop(_, _, _)
RECURSIVE parseString(_)
RECURSIVE parseKey(_)
RECURSIVE MapLoop(_, _)
RECURSIVE parseMap(_)
RECURSIVE parseConstant(_)
RECURSIVE parseCall(_)
RECURSIVE UnitLoop(_, _)

\* the switch over the operator symbol in parseStatement
OperatorName(s) ==
    CASE s = "+" -> "add"
      [] s = "-" -> "subtract"
      [] s = "*" -> "multiply"
      [] s = "/" -> "divide"
      [] s = "^" -> "power"
      [] s = "mod" -> "modulo"
      [] OTHER -> ""

OperatorPrecedence(s) ==
    CASE s = "+" -> Addition
      [] s = "-" -> Addition
      [] s = "*" -> Multiplication
      [] s = "/" -> Multiplication
      [] s = "^" -> Power
      [] s = "mod" -> Multiplication
      [] OTHER -> Undefined

\* a parser in which power is left-associative like every other operator
OperatorLeftAssociativeAlways(s) == TRUE

OperatorLeftAssociative(s) == s # "^"

\* an operator loop that forgets to stop at equal precedence
StopsAtLowerOnly(precedence, leftAssociative, minimumPrecedence) ==
    precedence < minimumPrecedence

\* the two break conditions of the operator loop
StopsAt(precedence, leftAssociative, minimumPrecedence) ==
    \/ precedence < minimumPrecedence
    \/ (precedence = minimumPrecedence) /\ leftAssociative

\* expression = new BinaryOperation(..., expression, this.parseStatement(...))
StatementLoopRight(expression, token, right, minimumPrecedence) ==
    IF ~right.ok THEN right
    ELSE StatementLoop(Command("BinaryOperation", token.pos, OperatorName(token.s),
                                   token.s, <<expression, right.cmd>>), right.tk, minimumPrecedence)

\* while (this.isOperator(context, token)) { ... }
StatementLoop(expression, tk, minimumPrecedence) ==
    LET token == get(tk) IN
    IF ~isOperator(token) THEN Ok(expression, tk)
    ELSE IF token.s \notin OperatorSymbols THEN Throw(tk, token, "Unsupported operation")
    ELSE IF StopsAt(OperatorPrecedence(token.s), OperatorLeftAssociative(token.s), minimumPrecedence)
         THEN Ok(expression, tk)
    ELSE StatementLoopRight(expression, token,
             parseStatement(nextExpressionToken(tk), OperatorPrecedence(token.s)),
             minimumPrecedence)

\* the branch of parseStatement behind a unary operator
parseStatementUnary(token, arg, minimumPrecedence) ==
    IF ~arg.ok THEN arg
    ELSE IF token.s = "+"
         THEN StatementLoop(Command("UnaryOperation", token.pos, "positiveOf", token.s,
                                        <<arg.cmd>>), arg.tk, minimumPrecedence)
    ELSE IF token.s = "-"
         THEN StatementLoop(Command("UnaryOperation", token.pos, "negativeOf", token.s,
                                        <<arg.cmd>>), arg.tk, minimumPrecedence)
    ELSE Throw(arg.tk, token, "Unsupported unary operation")

\* the branch of parseStatement without a unary operator
parseStatementPlain(first, minimumPrecedence) ==
    IF ~first.ok THEN first
    ELSE StatementLoop(first.cmd, first.tk, minimumPrecedence)

parseStatement(tk, minimumPrecedence) ==
    LET token == get(tk) IN
    IF ~isStatement(token) THEN Throw(tk, token, "Expected statement")
    ELSE IF isUnaryOperator(token)
         THEN parseStatementUnary(token,
                  parseExpressionChain(nextExpressionToken(tk)),
                  minimumPrecedence)
    ELSE parseStatementPlain(parseExpressionChain(tk), minimumPrecedence)

\* a chain that takes one more expression and stops (if for while)
ChainLoopPushOnce(expressions, next) ==
    IF ~next.ok THEN next
    ELSE Ok(Append(expressions, next.cmd), next.tk)

\* expressions.push(this.parseExpression(context))
ChainLoopPush(expressions, next) ==
    IF ~next.ok THEN next
    ELSE ChainLoop(Append(expressions, next.cmd), next.tk)

\* while (this.isExpression(context, token)) { expressions.push(...) }
ChainLoop(expressions, tk) ==
    IF ~isExpression(get(tk)) THEN Ok(expressions, tk)
    ELSE ChainLoopPush(expressions, parseExpression(tk))

\* expression = new Commands.Chain(startToken.line, startToken.column, expressions)
parseExpressionChainRest(startToken, rest) ==
    IF ~rest.ok THEN rest
    ELSE Ok(Command("Chain", startToken.pos, "", "", rest.cmd), rest.tk)

\* parseExpressionChain behind its first expression
parseExpressionChainFirst(startToken, first) ==
    IF ~first.ok THEN first
    ELSE IF isExpression(get(first.tk))
         THEN parseExpressionChainRest(startToken,
                  ChainLoop(<<first.cmd>>, first.tk))
    ELSE first

parseExpressionChain(tk) ==
    LET startToken == get(tk) IN
    IF ~isExpressionChain(startToken) THEN Throw(tk, startToken, "Expected expression chain")
    ELSE parseExpressionChainFirst(startToken, parseExpression(tk))

\* commands.push(this.parseStatement(context)) and the "," behind it
StatementListLoopPush(commands, item) ==
    IF ~item.ok THEN item
    ELSE IF ~isSeparator(get(item.tk), ",")
         THEN Ok(Append(commands, item.cmd), item.tk)
    ELSE StatementListLoop(Append(commands, item.cmd), nextExpressionToken(item.tk))

\* while (true) { Statement { "," Statement } } of parseTuple and parseList
StatementListLoop(commands, tk) ==
    IF ~isStatement(get(tk)) THEN Ok(commands, tk)
    ELSE StatementListLoopPush(commands,
             parseStatement(tk, Undefined))

\* the end of a tuple that takes the next token without a look at the bracket
parseTupleCloseUnchecked(startToken, items) ==
    IF ~items.ok THEN items
    ELSE Ok(Command("ATuple", startToken.pos, "", "", items.cmd), nextExpressionToken(items.tk))

\* parseTuple behind its loop
parseTupleClose(startToken, items) ==
    IF ~items.ok THEN items
    ELSE IF ~isClosingParentheses(get(items.tk))
         THEN Throw(items.tk, get(items.tk), "Expected end of tuple")
    ELSE Ok(Command("ATuple", startToken.pos, "", "", items.cmd), nextExpressionToken(items.tk))

parseTuple(tk) ==
    LET startToken == get(tk) IN
    IF ~isTuple(startToken) THEN Throw(tk, startToken, "Expected tuple")
    ELSE parseTupleClose(startToken,
             StatementListLoop(<<>>, nextExpressionToken(tk)))

\* parseList behind its loop
parseListClose(startToken, items) ==
    IF ~items.ok THEN items
    ELSE IF ~isClosingList(get(items.tk))
         THEN Throw(items.tk, get(items.tk), "Expected end of list")
    ELSE Ok(Command("AList", startToken.pos, "", "", items.cmd), nextExpressionToken(items.tk))

parseList(tk) ==
    LET startToken == get(tk) IN
    IF ~isList(startToken) THEN Throw(tk, startToken, "Expected list")
    ELSE parseListClose(startToken,
             StatementListLoop(<<>>, nextExpressionToken(tk)))

\* the placeholder that requests the token behind "}" as an expression token
StringLoopPlaceholderExpression(startToken, expressions, token, inner) ==
    IF ~inner.ok THEN inner
    ELSE IF ~isClosingPlaceholder(get(inner.tk))
         THEN Throw(inner.tk, get(inner.tk), "Expected closing placeholder")
    ELSE StringLoop(startToken, Append(expressions,
                Command("StringPlaceholderSegment", token.pos, "", "", <<inner.cmd>>)), nextExpressionToken(inner.tk))

\* expressions.push(new StringPlaceholderSegment(..., this.parseStatement(context)))
StringLoopPlaceholder(startToken, expressions, token, inner) ==
    IF ~inner.ok THEN inner
    ELSE IF ~isClosingPlaceholder(get(inner.tk))
         THEN Throw(inner.tk, get(inner.tk), "Expected closing placeholder")
    ELSE StringLoop(startToken, Append(expressions,
                Command("StringPlaceholderSegment", token.pos, "", "", <<inner.cmd>>)), nextStringToken(inner.tk))

\* while (true) { string | reference | "${" Statement "}" } up to the delimiter
StringLoop(startToken, expressions, tk) ==
    LET token == get(tk) IN
    IF isEnd(token) THEN Throw(tk, startToken, "Unclosed string")
    ELSE IF token.type = "delimiter"
         THEN Ok(Command("StringChain", startToken.pos, "", "", expressions),
                 nextExpressionToken(tk))
    ELSE IF token.type = "string"
         THEN StringLoop(startToken, Append(expressions,
                     Command("StringStringSegment", token.pos, "", token.s, <<>>)), nextStringToken(tk))
    ELSE IF token.type = "reference"
         THEN StringLoop(startToken, Append(expressions,
                     Command("StringReferenceSegment", token.pos, token.s, "", <<>>)), nextStringToken(tk))
    ELSE IF isOpeningPlaceholder(token)
         THEN IF isEnd(get(nextExpressionToken(tk)))
              THEN Throw(nextExpressionToken(tk), token, "Unclosed block")
              ELSE StringLoopPlaceholder(startToken, expressions, token,
                       parseStatement(nextExpressionToken(tk), Undefined))
    ELSE Throw(tk, token, "Expected string content")

parseString(tk) ==
    LET startToken == get(tk) IN
    IF ~isString(startToken) THEN Throw(tk, startToken, "Expected delimiter")
    ELSE StringLoop(startToken, <<>>, nextStringToken(tk))

\* Identifier = identifier; the token is read, not consumed
parseIdentifier(tk) ==
    LET token == get(tk) IN
    IF ~isIdentifier(token) THEN Throw(tk, token, "Expected identifier")
    ELSE Ok(Command("AValue", token.pos, "Identifier", token.s, <<>>), tk)

parseKey(tk) ==
    LET token == get(tk) IN
    IF ~isKey(token) THEN Throw(tk, token, "Expected key")
    ELSE IF isString(token) THEN parseString(tk)
    ELSE IF isIdentifier(token) THEN parseIdentifier(tk)
    ELSE Throw(tk, token, "Implementation missing for key")

\* commands.push({key, value}) and the "," behind it
MapLoopPush(commands, key, value) ==
    IF ~value.ok THEN value
    ELSE IF ~isSeparator(get(value.tk), ",")
         THEN Ok(Append(commands, Command("MapEntry", key.cmd.pos, "", "", <<key.cmd, value.cmd>>)),
                 value.tk)
    ELSE MapLoop(Append(commands,
                Command("MapEntry", key.cmd.pos, "", "", <<key.cmd, value.cmd>>)), nextExpressionToken(value.tk))

\* the ":" behind the key and the value behind it
MapLoopKey(commands, key) ==
    IF ~key.ok THEN key
    ELSE IF ~isSeparator(get(key.tk), ":") THEN Throw(key.tk, get(key.tk), "Expected :")
    ELSE MapLoopPush(commands, key,
             parseStatement(nextExpressionToken(key.tk), Undefined))

\* while (true) { Key ":" Statement { "," ... } } of parseMap
MapLoop(commands, tk) ==
    IF ~isKey(get(tk)) THEN Ok(commands, tk)
    ELSE MapLoopKey(commands, parseKey(tk))

\* parseMap behind its loop
parseMapClose(startToken, entries) ==
    IF ~entries.ok THEN entries
    ELSE IF ~isClosingMap(get(entries.tk))
         THEN Throw(entries.tk, get(entries.tk), "Expected end of map")
    ELSE Ok(Command("AMap", startToken.pos, "", "", entries.cmd), nextExpressionToken(entries.tk))

parseMap(tk) ==
    LET startToken == get(tk) IN
    IF ~isMap(startToken) THEN Throw(tk, startToken, "Expected map")
    ELSE parseMapClose(startToken,
             MapLoop(<<>>, nextExpressionToken(tk)))

parseNumber(tk) ==
    LET token == get(tk) IN
    IF ~isNumber(token) THEN Throw(tk, token, "Expected number")
    ELSE Ok(Command("AValue", token.pos, "Quantity", token.s, <<>>), nextExpressionToken(tk))

parseConstant(tk) ==
    LET token == get(tk) IN
    IF ~isConstant(token) THEN Throw(tk, token, "Expected constant")
    ELSE IF isNumber(token) THEN parseNumber(tk)
    ELSE IF isString(token) THEN parseString(tk)
    ELSE Throw(tk, token, "Implementation missing for constant")

\* return new Commands.Call(startToken.line, startToken.column, procedure, args)
parseCallArgs(startToken, args) ==
    IF ~args.ok THEN args
    ELSE Ok(Command("Call", startToken.pos, startToken.s, "", <<args.cmd>>), args.tk)

parseCall(tk) ==
    LET startToken == get(tk) IN
    IF ~isCall(startToken) THEN Throw(tk, startToken, "Expected call")
    ELSE parseCallArgs(startToken,
             parseStatement(nextExpressionToken(tk), Undefined))

parseAccess(tk) ==
    LET startToken == get(tk) IN
    IF ~isAccess(startToken) THEN Throw(tk, startToken, "Expected access")
    ELSE Ok(Command("Access", startToken.pos, startToken.s, "", <<>>), nextExpressionToken(tk))

\* a parseUnit that takes every "/" without looking at the token behind it
SlashJoinsAlways(tk) == isOperatorOf(get(tk), "/")

\* does parseUnit take the "/" at the cursor into the compound unit?
SlashJoins(tk) ==
    isOperatorOf(get(tk), "/") /\ isUnit(lookAheadExpressionToken(tk))

\* while (true) { "/" unit | unit } of parseUnit
UnitLoop(unitString, tk) ==
    IF SlashJoins(tk)
    THEN UnitLoop(unitString \o "/" \o get(nextExpressionToken(tk)).s,
                  nextExpressionToken(nextExpressionToken(tk)))
    ELSE IF isUnit(get(tk))
         THEN UnitLoop(unitString \o " " \o get(tk).s, nextExpressionToken(tk))
    ELSE [unitString |-> unitString, tk |-> tk]

\* let unit = Units.get(unitString) and the check behind it
parseUnitResolve(startToken, joined, unit) ==
    IF ~unit.defined THEN Throw(joined.tk, startToken, "Unit not defined")
    ELSE Ok(Command("AUnit", startToken.pos, unit.symbol, "", <<>>), joined.tk)

\* parseUnit behind its loop
parseUnitJoined(startToken, joined) ==
    parseUnitResolve(startToken, joined, UnitsGet(joined.unitString))

parseUnit(tk) ==
    LET startToken == get(tk) IN
    IF ~isUnit(startToken) THEN Throw(tk, startToken, "Expected unit")
    ELSE parseUnitJoined(startToken, UnitLoop(startToken.s, nextExpressionToken(tk)))

\* a classification that looks for a variable before it looks for a procedure
ExpressionKindAccessFirst(token) ==
    IF isTuple(token) THEN "Tuple"
    ELSE IF isList(token) THEN "List"
    ELSE IF isMap(token) THEN "Map"
    ELSE IF isConstant(token) THEN "Constant"
    ELSE IF isAccess(token) THEN "Access"
    ELSE IF isCall(token) THEN "Call"
    ELSE IF isUnit(token) THEN "Unit"
    ELSE "none"

\* the classification of the token an expression starts with, in the order
\* of the if-chain of parseExpression
ExpressionKind(token) ==
    IF isTuple(token) THEN "Tuple"
    ELSE IF isList(token) THEN "List"
    ELSE IF isMap(token) THEN "Map"
    ELSE IF isConstant(token) THEN "Constant"
    ELSE IF isCall(token) THEN "Call"
    ELSE IF isAccess(token) THEN "Access"
    ELSE IF isUnit(token) THEN "Unit"
    ELSE "none"

\* the parse function parseExpression hands the token of a kind to
parseExpressionOf(kind, token, tk) ==
    CASE kind = "Tuple" -> parseTuple(tk)
      [] kind = "List" -> parseList(tk)
      [] kind = "Map" -> parseMap(tk)
      [] kind = "Constant" -> parseConstant(tk)
      [] kind = "Call" -> parseCall(tk)
      [] kind = "Access" -> parseAccess(tk)
      [] kind = "Unit" -> parseUnit(tk)
      [] OTHER -> Throw(tk, token, "Implementation missing for expression")

parseExpression(tk) ==
    IF ~isExpression(get(tk)) THEN Throw(tk, get(tk), "Expected expression")
    ELSE parseExpressionOf(ExpressionKind(get(tk)), get(tk), tk)

\* new Parser(scanner): the constructor requests the first token
ParserNew == nextExpressionToken(TokenizerNew)

-----------------------------------------------------------------------------
(* Units and quantities.  A Unit has a type of measurement, a multiplier   *)
(* (the ratio to its sub-unit) and a sub-unit; a magnitude is kept as the  *)
(* count of the finest unit of its type of measurement, so that 1.5 m is   *)
(* 1500 of the unit mm.                                                    *)

UnitTable ==
    [m  |-> [typeOfMeasurement |-> "LENGTH", multiplier |-> 100, subUnit |-> "cm"],
     cm |-> [typeOfMeasurement |-> "LENGTH", multiplier |-> 10, subUnit |-> "mm"],
     mm |-> [typeOfMeasurement |-> "LENGTH", multiplier |-> 1, subUnit |-> ""],
     s  |-> [typeOfMeasurement |-> "TIME", multiplier |-> 1, subUnit |-> ""]]

UnitSymbols == DOMAIN UnitTable

RECURSIVE InFinest(_)
\* the product of the multipliers along the sub-unit chain below unit
InFinest(unit) ==
    IF UnitTable[unit].subUnit = "" THEN 1
    ELSE UnitTable[unit].multiplier * InFinest(UnitTable[unit].subUnit)

RECURSIVE IsFiner(_, _)
\* other lies strictly below unit on the sub-unit chain
IsFiner(unit, other) ==
    /\ UnitTable[unit].subUnit # ""
    /\ \/ UnitTable[unit].subUnit = other
       \/ IsFiner(UnitTable[unit].subUnit, other)

\* the value of a number token
NumberOf(s) == CASE s = "1" -> 1 [] s = "50" -> 50 [] OTHER -> 0

NoQuantity == [kind |-> "none", amount |-> 0, unit |-> "", last |-> ""]

\* a quantity, and the unit that was named last in its literal
Quantity(amount, unit, last) == [kind |-> "quantity", amount |-> amount, unit |-> unit, last |-> last]

\* a value that is no single quantity: a number, a chain of values, ...
Other(kind) == [kind |-> kind, amount |-> 0, unit |-> "", last |-> ""]

\* the next part of a composite literal meets what was read before it
Fold(acc, n, unit) ==
    IF acc.kind = "none" THEN Quantity(n * InFinest(unit), unit, unit)
    ELSE IF /\ acc.kind = "quantity"
            /\ UnitTable[unit].typeOfMeasurement = UnitTable[acc.last].typeOfMeasurement
            /\ IsFiner(acc.last, unit)
         THEN Quantity(acc.amount + n * InFinest(unit), acc.unit, unit)
    ELSE Other("chain")

RECURSIVE EvaluateChain(_, _, _)
\* the value of a Chain, read from its i-th expression on
EvaluateChain(expressions, i, acc) ==
    IF i > Len(expressions) \/ acc.kind \notin {"none", "quantity"} THEN acc
    ELSE IF expressions[i].kind # "AValue" \/ expressions[i].name # "Quantity"
         THEN Other("chain")
    ELSE IF i < Len(expressions) /\ expressions[i + 1].kind = "AUnit"
         THEN IF expressions[i + 1].name \notin UnitSymbols THEN Other("chain")
              ELSE EvaluateChain(expressions, i + 2,
                       Fold(acc, NumberOf(expressions[i].symbol), expressions[i + 1].name))
    ELSE IF acc.kind = "none" THEN EvaluateChain(expressions, i + 1, Other("number"))
    ELSE IF UnitTable[acc.last].subUnit = "" THEN Other("error")
    ELSE EvaluateChain(expressions, i + 1,
             Fold(acc, NumberOf(expressions[i].symbol), UnitTable[acc.last].subUnit))

\* the value of a parsed literal
Evaluate(parsed) ==
    IF ~parsed.ok THEN Other("error")
    ELSE IF parsed.cmd.kind = "Chain" THEN EvaluateChain(parsed.cmd.args, 1, NoQuantity)
    ELSE IF parsed.cmd.kind = "AValue" THEN Other("number")
    ELSE Other("unit")

-----------------------------------------------------------------------------
(* Scope: a chain of name -> value stores.  values is a plain object, so   *)
(* reading a name the object does not own yields the member the object     *)
(* inherits from Object.prototype, if there is one of that name.           *)

undefined == "undefined"
null == "null"
absent == "absent"          \* the object has no own property of that name

ObjectPrototype == {"toString"}

ScopeNames == {"value", "unit", "convert", "toString"}

Inherited(name) == "Object.prototype." \o name

\* new Scope(parent)
ScopeNew(parent) == [parent |-> parent, values |-> [n \in ScopeNames |-> absent]]

\* this.values[name]
Read(h, scope, name) ==
    LET own == h[scope].values[name] IN
    IF own # absent THEN own
    ELSE IF name \in ObjectPrototype THEN Inherited(name)
    ELSE undefined

\* a set that writes into the parent scope, where there is one
ScopeSetInParent(h, scope, name, value) ==
    IF h[scope].parent # 0
    THEN [h EXCEPT ![h[scope].parent].values[name] = value]
    ELSE [h EXCEPT ![scope].values[name] = value]

\* set(name, value)
ScopeSet(h, scope, name, value) == [h EXCEPT ![scope].values[name] = value]

RECURSIVE PutAll(_, _, _, _)
\* for (var name in values) { this.set(name, values[name]); }
PutAll(h, scope, values, names) ==
    IF names = {} THEN h
    ELSE LET name == CHOOSE n \in names : TRUE IN
         PutAll(ScopeSet(h, scope, name, values[name]), scope, values, names \ {name})

\* an argument record a caller passed ...
Given(entries) == [given |-> TRUE, entries |-> entries]

\* ... and the argument left out (undefined)
NotGiven == [given |-> FALSE, entries |-> <<>>]

\* put(values)
ScopePut(h, scope, values) ==
    IF values.given THEN PutAll(h, scope, values.entries, DOMAIN values.entries) ELSE h

\* derive(params): the new scope is the last of the heap
ScopeDerive(h, scope, params) == ScopePut(Append(h, ScopeNew(scope)), Len(h) + 1, params)

RECURSIVE Walk(_, _, _)
\* while ((value === undefined) && (scope.parent)) { ... }
Walk(h, scope, name) ==
    IF h[scope].parent # 0
    THEN IF Read(h, h[scope].parent, name) = undefined
         THEN Walk(h, h[scope].parent, name)
         ELSE Read(h, h[scope].parent, name)
    ELSE undefined

\* a get with a default of its own for the caller that passed none
ScopeGetSilentDefault(h, scope, name, defaultValue) ==
    IF Read(h, scope, name) = undefined /\ Walk(h, scope, name) = undefined
    THEN IF defaultValue # undefined THEN defaultValue ELSE "0"
    ELSE IF Read(h, scope, name) # undefined THEN Read(h, scope, name)
    ELSE Walk(h, scope, name)

\* get(name, defaultValue); a defaultValue that was not passed is undefined
ScopeGet(h, scope, name, defaultValue) ==
    LET value == IF Read(h, scope, name) = undefined
                 THEN Walk(h, scope, name)
                 ELSE Read(h, scope, name)
    IN  IF (value = undefined) \/ (value = null)
        THEN IF defaultValue # undefined THEN defaultValue ELSE value
        ELSE value

\* what a call returns ...
Return(value) == [kind |-> "return", value |-> value, error |-> <<>>]

\* ... or throws: the message of an Error, in the pieces it is built from
Raise(message) == [kind |-> "throw", value |-> undefined, error |-> message]

\* `${error}` of an Error
ErrorString(error) == <<"Error: ">> \o error

\* Utils.required(value, message)
UtilsRequired(value, message) ==
    IF (value = undefined) \/ (value = null) THEN Raise(message) ELSE Return(value)

\* required(name)
ScopeRequired(h, scope, name) ==
    UtilsRequired(ScopeGet(h, scope, name, undefined),
                  <<"Required value is not defined: ", name>>)

\* The implementations a procedure value may stand for, run on the derived
\* scope: one that returns scope.get("value"), one that binds a name in its
\* scope and returns, one that throws.  A value that is no function throws a
\* TypeError when it is called.
Behaviours == {"get", "set", "fail"}

IsFunction(value) == value = "procedure" \/ value \in {Inherited(n) : n \in ObjectPrototype}

Implementation(h, value, behaviour, child) ==
    IF ~IsFunction(value)
    THEN [heap |-> h, result |-> Raise(<<"TypeError: implementation is not a function">>)]
    ELSE IF value # "procedure"
    THEN [heap |-> h, result |-> Return("[object Undefined]")]
    ELSE CASE behaviour = "get" ->
                  [heap |-> h, result |-> Return(ScopeGet(h, child, "value", undefined))]
           [] behaviour = "set" ->
                  [heap |-> ScopeSet(h, child, "value", "2"), result |-> Return("2")]
           [] behaviour = "fail" ->
                  [heap |-> h, result |-> Raise(<<"failure">>)]

\* an invoke whose catch block drops the error it caught
InvokeCatchDropsCause(name, ran) ==
    IF ran.result.kind = "throw"
    THEN Raise(<<"Invocation failed: ", name, ".">>)
    ELSE ran.result

\* try { return implementation(...) } catch (error) { throw new Error(...) }
InvokeCatch(name, ran) ==
    IF ran.result.kind = "throw"
    THEN Raise(<<"Invocation failed: ", name, ".\n\tcaused by ">> \o ErrorString(ran.result.error))
    ELSE ran.result

\* invoke(name, args): the heap after the call (the derived scope is dropped
\* with the call), the scope the implementation was handed, and the result
ScopeInvoke(h, scope, name, args, behaviour) ==
    LET implementation == UtilsRequired(ScopeGet(h, scope, name, undefined),
                              <<"Required procedure implementation is not defined: ", name>>)
        derived == ScopeDerive(h, scope, args)
        child == Len(h) + 1
        ran == Implementation(derived, implementation.value, behaviour, child)
    IN  IF implementation.kind = "throw"
        THEN [heap |-> h, called |-> FALSE, derived |-> ScopeNew(0), result |-> implementation]
        ELSE [heap |-> SubSeq(ran.heap, 1, Len(h)), called |-> TRUE,
              derived |-> derived[child], result |-> InvokeCatch(name, ran)]

\* Utils.formatError(line, column, message, cause)
UtilsFormatError(message, cause) == message \o <<"\n\tcaused by ">> \o ErrorString(cause)

\* the name msg(scope.accent, Globals.PROCEDURE_CONVERT) resolves to
ProcedureConvert == "convert"

\* the catch block of ConvertCommand
ConvertCatch(attempt) ==
    IF attempt.kind = "throw"
    THEN Raise(UtilsFormatError(<<"Failed to invoke procedure: ", ProcedureConvert>>,
                                attempt.error))
    ELSE attempt

\* ConvertCommand: valueArg.execute(scope) returned or threw; then the convert
\* procedure is required from the scope and invoked with the value and the
\* unit, which is taken to be what Scope.invoke does for that name
ConvertCommand(h, scope, executed, behaviour) ==
    LET invoked == ScopeInvoke(h, scope, ProcedureConvert,
                               Given([value |-> executed.value, unit |-> "m"]), behaviour)
    IN  IF executed.kind = "throw"
        THEN [heap |-> h, called |-> FALSE, derived |-> ScopeNew(0),
              result |-> ConvertCatch(executed)]
        ELSE [heap |-> invoked.heap, called |-> invoked.called, derived |-> invoked.derived,
              result |-> ConvertCatch(invoked.result)]

-----------------------------------------------------------------------------
(* The calls of the Scope methods.                                         *)

NoOutcome ==
    [op |-> "none", scope |-> 0, name |-> "", passed |-> undefined, args |-> NotGiven,
     behaviour |-> "", called |-> FALSE, derived |-> ScopeNew(0), result |-> Return(undefined)]

Outcome(op, scope, name, passed, args, behaviour, called, derived, res) ==
    [op |-> op, scope |-> scope, name |-> name, passed |-> passed, args |-> args,
     behaviour |-> behaviour, called |-> called, derived |-> derived, result |-> res]

\* the records a caller passes to put, derive and invoke, over some bindings
ParamsOver(bindings) ==
    {NotGiven, Given(<<>>)} \cup {Given([n \in {b[1]} |-> b[2]]) : b \in bindings}

\* The scopes change by set, put and derive.  A call that only answers (get,
\* required, invoke, a ConvertCommand) leaves its answer in outcome, where it
\* stays until the scopes are changed next.
Set(bindings) ==
    \E scope \in 1..Len(scopes), b \in bindings :
        /\ scopes' = ScopeSet(scopes, scope, b[1], b[2])
        /\ outcome' = NoOutcome
        /\ UNCHANGED parserVars

Put(bindings) ==
    \E scope \in 1..Len(scopes), values \in ParamsOver(bindings) :
        /\ scopes' = ScopePut(scopes, scope, values)
        /\ outcome' = NoOutcome
        /\ UNCHANGED parserVars

Derive(bindings) ==
    \E scope \in 1..Len(scopes), params \in ParamsOver(bindings) :
        /\ Len(scopes) < MaxScopes
        /\ scopes' = ScopeDerive(scopes, scope, params)
        /\ outcome' = NoOutcome
        /\ UNCHANGED parserVars

Get(names) ==
    \E scope \in 1..Len(scopes), name \in names, defaultValue \in {undefined, "0"} :
        /\ outcome = NoOutcome
        /\ outcome' = Outcome("get", scope, name, defaultValue, NotGiven, "", FALSE, ScopeNew(0),
                              Return(ScopeGet(scopes, scope, name, defaultValue)))
        /\ UNCHANGED <<scopes, parserVars>>

Required(names) ==
    \E scope \in 1..Len(scopes), name \in names :
        /\ outcome = NoOutcome
        /\ outcome' = Outcome("required", scope, name, undefined, NotGiven, "", FALSE, ScopeNew(0),
                              ScopeRequired(scopes, scope, name))
        /\ UNCHANGED <<scopes, parserVars>>

Invoke(names, bindings) ==
    \E scope \in 1..Len(scopes), name \in names, args \in ParamsOver(bindings),
       behaviour \in Behaviours :
        LET invoked == ScopeInvoke(scopes, scope, name, args, behaviour) IN
        /\ outcome = NoOutcome
        /\ scopes' = invoked.heap
        /\ outcome' = Outcome("invoke", scope, name, undefined, args, behaviour,
                              invoked.called, invoked.derived, invoked.result)
        /\ UNCHANGED parserVars

Convert ==
    \E scope \in 1..Len(scopes), executed \in {Return("1"), Raise(<<"no value">>)},
       behaviour \in Behaviours :
        LET converted == ConvertCommand(scopes, scope, executed, behaviour) IN
        /\ outcome = NoOutcome
        /\ scopes' = converted.heap
        /\ outcome' = Outcome("convert", scope, ProcedureConvert, undefined,
                              Given([value |-> executed.value, unit |-> "m"]), behaviour,
                              converted.called, converted.derived, converted.result)
        /\ UNCHANGED parserVars

\* new Scope(null); no parser is at work
InitScope ==
    /\ scopes = <<ScopeNew(0)>>
    /\ outcome = NoOutcome
    /\ tokens = <<EndToken>>
    /\ procedures = {}
    /\ variables = {}
    /\ registry = {}
    /\ pc = "idle"
    /\ result = Ok(NoCommand, TokenizerNew)
    /\ quantity = NoQuantity

\* the bindings and names the callers of the lookup use
LookupBindings == ({"value"} \X {undefined, null, "1", "2"}) \cup {<<"toString", "1">>}

LookupNames == {"value", "toString"}

NextLookup ==
    \/ Set(LookupBindings)
    \/ Put(LookupBindings)
    \/ Derive(LookupBindings)
    \/ Get(LookupNames)
    \/ Required(LookupNames)

SpecLookup == InitScope /\ [][NextLookup]_vars

\* the bindings, names and arguments the callers of procedures use
InvokeBindings == {<<"value", "1">>, <<"convert", "procedure">>, <<"convert", "1">>}

InvokeNames == {"convert", "toString"}

InvokeArgs == {<<"value", "1">>}

NextInvoke ==
    \/ Set(InvokeBindings)
    \/ Derive(InvokeBindings)
    \/ Invoke(InvokeNames, InvokeArgs)
    \/ Convert

SpecInvoke == InitScope /\ [][NextInvoke]_vars

-----------------------------------------------------------------------------
(* Inputs.                                                                 *)

Number1 == Tok("number", "1")
WordX == Tok("word", "x")

Operands == {Number1, WordX}

Operators == {Tok("operator", s) : s \in OperatorSymbols}

\* operand (op operand)* with n operators
RECURSIVE OperatorChains(_)
OperatorChains(n) ==
    IF n = 0 THEN {<<a>> : a \in Operands}
    ELSE {c \o <<o, a>> : c \in OperatorChains(n - 1), o \in Operators, a \in Operands}

\* the chains of up to max operators
ArithmeticInputs(max) == UNION {OperatorChains(n) : n \in 0..max}

\* words that may or may not be procedures, variables or unit symbols
Names == {"a", "b"}

WordTokens == {Tok("word", n) : n \in Names}

Alphabet == WordTokens \cup {Number1, Tok("operator", "/"), Tok("operator", "+")}

RECURSIVE InputsOfLength(_)
InputsOfLength(n) ==
    IF n = 0 THEN {<<>>}
    ELSE {i \o <<t>> : i \in InputsOfLength(n - 1), t \in Alphabet}

\* the inputs of up to max tokens
FreeInputs(max) == UNION {InputsOfLength(n) : n \in 1..max}

-----------------------------------------------------------------------------
(* Specification of the parser over operator chains.                       *)

InitArith ==
    /\ tokens \in {c \o <<EndToken>> : c \in ArithmeticInputs(MaxOps)}
    /\ procedures = {}
    /\ variables = {"x"}
    /\ registry = {}
    /\ pc = "ready"
    /\ result = Ok(NoCommand, TokenizerNew)
    /\ scopes = <<>>
    /\ outcome = NoOutcome
    /\ quantity = NoQuantity

\* any input over the alphabet, in any context and unit registry
InitWords ==
    /\ tokens \in {i \o <<EndToken>> : i \in FreeInputs(MaxLen)}
    /\ procedures \in SUBSET Names
    /\ variables \in SUBSET Names
    /\ registry \in SUBSET Names
    /\ pc = "ready"
    /\ result = Ok(NoCommand, TokenizerNew)
    /\ scopes = <<>>
    /\ outcome = NoOutcome
    /\ quantity = NoQuantity

\* the caller constructs the Parser and calls parseStatement(context)
Parse ==
    /\ pc = "ready"
    /\ pc' = "parsed"
    /\ result' = parseStatement(ParserNew, Undefined)
    /\ UNCHANGED <<tokens, procedures, variables, registry, scopes, outcome, quantity>>

\* parseExpression(context) on the first token of the input
ParseExpression ==
    /\ pc = "ready"
    /\ pc' = "expression"
    /\ result' = parseExpression(ParserNew)
    /\ UNCHANGED <<tokens, procedures, variables, registry, scopes, outcome, quantity>>

\* parseUnit(context) on the first token of the input
ParseUnit ==
    /\ pc = "ready"
    /\ pc' = "unit"
    /\ result' = parseUnit(ParserNew)
    /\ UNCHANGED <<tokens, procedures, variables, registry, scopes, outcome, quantity>>

NextParser == Parse \/ ParseExpression \/ ParseUnit

SpecArith == InitArith /\ [][NextParser]_vars

SpecWords == InitWords /\ [][NextParser]_vars

-----------------------------------------------------------------------------
(* Specification of quantity literals.                                     *)

QuantityAlphabet ==
    {Tok("number", "1"), Tok("number", "50")} \cup {Tok("word", u) : u \in UnitSymbols}

RECURSIVE LiteralsOfLength(_)
LiteralsOfLength(n) ==
    IF n = 0 THEN {<<>>}
    ELSE {i \o <<t>> : i \in LiteralsOfLength(n - 1), t \in QuantityAlphabet}

\* the literals of up to max tokens
Literals(max) == UNION {LiteralsOfLength(n) : n \in 1..max}

\* the units are registered; nothing else is known
InitQuantity ==
    /\ tokens \in {i \o <<EndToken>> : i \in Literals(MaxChain)}
    /\ procedures = {}
    /\ variables = {}
    /\ registry = UnitSymbols
    /\ pc = "ready"
    /\ result = Ok(NoCommand, TokenizerNew)
    /\ scopes = <<>>
    /\ outcome = NoOutcome
    /\ quantity = NoQuantity

\* Quantity.parse(language, s): the literal is parsed and evaluated
QuantityParse ==
    /\ pc = "ready"
    /\ pc' = "evaluated"
    /\ result' = parseStatement(ParserNew, Undefined)
    /\ quantity' = Evaluate(result')
    /\ UNCHANGED <<tokens, procedures, variables, registry, scopes, outcome>>

NextQuantity == QuantityParse

SpecQuantity == InitQuantity /\ [][NextQuantity]_vars

-----------------------------------------------------------------------------
(* Specification of calls: a procedure word in front of an operator chain. *)

WordP == Tok("word", "p")

InitCall ==
    /\ tokens \in {<<WordP>> \o c \o <<EndToken>> : c \in ArithmeticInputs(MaxOps)}
    /\ procedures = {"p"}
    /\ variables = {"x"}
    /\ registry = {}
    /\ pc = "ready"
    /\ result = Ok(NoCommand, TokenizerNew)
    /\ scopes = <<>>
    /\ outcome = NoOutcome
    /\ quantity = NoQuantity

SpecCall == InitCall /\ [][NextParser]_vars

-----------------------------------------------------------------------------
(* Specification of map literals.                                          *)

LBrace == Tok("brackets", "{")
RBrace == Tok("brackets", "}")
Colon == Tok("separator", ":")
Comma == Tok("separator", ",")
Quote == Tok("delimiter", "\"")
WordT == Tok("word", "t")

\* a key is an identifier or a string
MapKeys == {<<WordX>>, <<Tok("word", "k")>>, <<Quote, Quote>>, <<Quote, WordT, Quote>>}

MapValues == {<<Number1>>, <<WordX>>}

MapEntries == {k \o <<Colon>> \o v : k \in MapKeys, v \in MapValues}

RECURSIVE EntryLists(_)
\* n entries with a "," between two of them
EntryLists(n) ==
    IF n = 0 THEN {<<>>}
    ELSE IF n = 1 THEN MapEntries
    ELSE {l \o <<Comma>> \o e : l \in EntryLists(n - 1), e \in MapEntries}

\* the well-formed map literals of up to max entries
MapLiterals(max) ==
    {<<LBrace>> \o l \o <<RBrace>> : l \in UNION {EntryLists(n) : n \in 0..max}}

InitMap ==
    /\ tokens \in {m \o <<EndToken>> : m \in MapLiterals(MaxEntries)}
    /\ procedures = {}
    /\ variables = {"x"}
    /\ registry = {}
    /\ pc = "ready"
    /\ result = Ok(NoCommand, TokenizerNew)
    /\ scopes = <<>>
    /\ outcome = NoOutcome
    /\ quantity = NoQuantity

\* parseKey(context) on the token behind the opening bracket
ParseKey ==
    /\ pc = "ready"
    /\ pc' = "key"
    /\ result' = parseKey(nextExpressionToken(ParserNew))
    /\ UNCHANGED <<tokens, procedures, variables, registry, scopes, outcome, quantity>>

NextMap == Parse \/ ParseKey

SpecMap == InitMap /\ [][NextMap]_vars

-----------------------------------------------------------------------------
(* Specification of tuples and lists.                                      *)

LParen == Tok("brackets", "(")
RParen == Tok("brackets", ")")
LBracket == Tok("brackets", "[")
RBracket == Tok("brackets", "]")

BracketAlphabet == {LParen, RParen, LBracket, RBracket, Comma, Number1}

RECURSIVE BracketInputsOfLength(_)
BracketInputsOfLength(n) ==
    IF n = 0 THEN {<<>>}
    ELSE {i \o <<t>> : i \in BracketInputsOfLength(n - 1), t \in BracketAlphabet}

\* the token sequences of 1..max tokens over the brackets, "," and a number
BracketInputs(max) == UNION {BracketInputsOfLength(n) : n \in 1..max}

InitBrackets ==
    /\ tokens \in {i \o <<EndToken>> : i \in BracketInputs(MaxBracket)}
    /\ procedures = {}
    /\ variables = {}
    /\ registry = {}
    /\ pc = "ready"
    /\ result = Ok(NoCommand, TokenizerNew)
    /\ scopes = <<>>
    /\ outcome = NoOutcome
    /\ quantity = NoQuantity

NextBrackets == Parse \/ ParseExpression

SpecBrackets == InitBrackets /\ [][NextBrackets]_vars

-----------------------------------------------------------------------------
(* Specification of string literals: the strings of up to MaxString        *)
(* tokens, of text, references and placeholders, whose placeholders hold   *)
(* a number, a variable, a sum or a string again.                          *)

Reference == Tok("reference", "r")
OpenPlaceholder == Tok("brackets", "${")
Plus == Tok("operator", "+")

RECURSIVE StringsOfLength(_), BodiesOfLength(_), SegmentsOfLength(_), StatementsOfLength(_)

\* String = delimiter { segment } delimiter
StringsOfLength(n) ==
    IF n < 2 THEN {}
    ELSE {<<Quote>> \o b \o <<Quote>> : b \in BodiesOfLength(n - 2)}

\* { string | reference | "${" Statement "}" }
BodiesOfLength(n) ==
    IF n = 0 THEN {<<>>}
    ELSE UNION {{s \o b : s \in SegmentsOfLength(k), b \in BodiesOfLength(n - k)} : k \in 1..n}

SegmentsOfLength(k) ==
    IF k = 1 THEN {<<WordT>>, <<Reference>>}
    ELSE {<<OpenPlaceholder>> \o st \o <<RBrace>> : st \in StatementsOfLength(k - 2)}

\* the Statement of a placeholder
StatementsOfLength(m) ==
    IF m < 1 THEN {}
    ELSE IF m = 1 THEN {<<Number1>>, <<WordX>>}
    ELSE IF m = 3 THEN {<<Number1, Plus, WordX>>} \cup StringsOfLength(m)
    ELSE StringsOfLength(m)

StringLiterals(max) == UNION {StringsOfLength(n) : n \in 2..max}

\* what follows the string in the input
StringSuffixes == {<<>>, <<Plus, Number1>>}

InitString ==
    /\ tokens \in {s \o f \o <<EndToken>> : s \in StringLiterals(MaxString), f \in StringSuffixes}
    /\ procedures = {}
    /\ variables = {"x"}
    /\ registry = {}
    /\ pc = "ready"
    /\ result = Ok(NoCommand, TokenizerNew)
    /\ scopes = <<>>
    /\ outcome = NoOutcome
    /\ quantity = NoQuantity

NextString == Parse \/ ParseExpression

SpecString == InitString /\ [][NextString]_vars

-----------------------------------------------------------------------------
(* Specification of units next to operators: the unit registry may hold    *)
(* any symbol, the symbol of an operator included.                         *)

WordU == Tok("word", "u")
Slash == Tok("operator", "/")

UnitAlphabet == {Number1, WordU, Plus, Slash}

RECURSIVE UnitInputsOfLength(_)
UnitInputsOfLength(n) ==
    IF n = 0 THEN {<<>>}
    ELSE {i \o <<t>> : i \in UnitInputsOfLength(n - 1), t \in UnitAlphabet}

UnitInputs(max) == UNION {UnitInputsOfLength(n) : n \in 1..max}

\* the symbols a registry may hold
RegistrySymbols == {"u", "+", "/"}

InitUnits ==
    /\ tokens \in {i \o <<EndToken>> : i \in UnitInputs(MaxUnitLen)}
    /\ procedures = {}
    /\ variables = {}
    /\ registry \in SUBSET RegistrySymbols
    /\ pc = "ready"
    /\ result = Ok(NoCommand, TokenizerNew)
    /\ scopes = <<>>
    /\ outcome = NoOutcome
    /\ quantity = NoQuantity

SpecUnits == InitUnits /\ [][NextParser]_vars

-----------------------------------------------------------------------------
(* Operations: the routines a UnaryOperation or BinaryOperation dispatches *)
(* to by the name the parser gave it.  A runtime value is a Quantity or    *)
(* something else (a string).                                              *)

OperationsRoutines ==
    {"concat", "positive", "negative", "convert", "add", "subtract", "multiply", "divide", "modulo"}

RuntimeValues == {"Quantity", "string"}

\* export function positive / negative / add / subtract / multiply / divide / modulo
OperationsApply(name, left, right) ==
    IF name \in {"add", "subtract", "multiply", "divide"}
    THEN IF left = "Quantity" /\ right = "Quantity"
         THEN Return("Quantity")
         ELSE Raise(<<name, " not supported: ", left, right>>)
    ELSE Return(undefined)

\* the call of the routine of the given name; a name without a routine is
\* the call of undefined, a TypeError
Dispatch(name, left, right) ==
    IF name \in OperationsRoutines THEN OperationsApply(name, left, right)
    ELSE Raise(<<"TypeError: ", name, " is not a function">>)

\* an optional unary operator in front of a chain of binary operations
UnaryPrefixes == {<<>>, <<Tok("operator", "+")>>, <<Tok("operator", "-")>>}

InitOperations ==
    /\ tokens \in {u \o c \o <<EndToken>> : u \in UnaryPrefixes, c \in ArithmeticInputs(MaxOperations)}
    /\ procedures = {}
    /\ variables = {"x"}
    /\ registry = {}
    /\ pc = "ready"
    /\ result = Ok(NoCommand, TokenizerNew)
    /\ scopes = <<>>
    /\ outcome = NoOutcome
    /\ quantity = NoQuantity

\* the evaluation of one operation of the parsed command on operands of
\* some kinds
Operate ==
    /\ pc = "parsed"
    /\ result.ok
    /\ outcome = NoOutcome
    /\ \E c \in Nodes(result.cmd), left \in RuntimeValues, right \in RuntimeValues :
           /\ c.kind \in {"UnaryOperation", "BinaryOperation"}
           /\ c.kind = "UnaryOperation" => right = left
           /\ outcome' = Outcome("operate", c.pos, c.name, left, NotGiven, right,
                                 c.name \in OperationsRoutines, ScopeNew(0),
                                 Dispatch(c.name, left, right))
    /\ UNCHANGED <<scopes, parserVars>>

NextOperations == Parse \/ Operate

SpecOperations == InitOperations /\ [][NextOperations]_vars

-----------------------------------------------------------------------------
(* Specification of the whole syntax: every token sequence of up to        *)
(* MaxMixed tokens over all kinds of tokens, and the inputs of brackets,   *)
(* maps, strings, units and operations of above.                           *)

MixedAlphabet ==
    {Number1, WordX, WordP, WordU, Plus, Slash, LParen, RParen,
     LBrace, RBrace, Comma, Quote, OpenPlaceholder}

RECURSIVE MixedInputsOfLength(_)
MixedInputsOfLength(n) ==
    IF n = 0 THEN {<<>>}
    ELSE {i \o <<t>> : i \in MixedInputsOfLength(n - 1), t \in MixedAlphabet}

MixedInputs(max) == UNION {MixedInputsOfLength(n) : n \in 1..max}

InitMixed ==
    /\ tokens \in {i \o <<EndToken>> : i \in MixedInputs(MaxMixed)}
    /\ procedures = {"p"}
    /\ variables = {"x"}
    /\ registry = {"u"}
    /\ pc = "ready"
    /\ result = Ok(NoCommand, TokenizerNew)
    /\ scopes = <<>>
    /\ outcome = NoOutcome
    /\ quantity = NoQuantity

InitSyntax ==
    \/ InitMixed
    \/ InitBrackets
    \/ InitMap
    \/ InitString
    \/ InitUnits
    \/ InitOperations

SpecSyntax == InitSyntax /\ [][Parse]_vars

-----------------------------------------------------------------------------
(* Shapes of command trees, stated without reference to the parser.        *)

RECURSIVE InOrder(_)
\* the token positions of a tree of binary operations, left to right
InOrder(cmd) ==
    IF cmd.kind = "BinaryOperation"
    THEN InOrder(cmd.args[1]) \o <<cmd.pos>> \o InOrder(cmd.args[2])
    ELSE <<cmd.pos>>

IsBinary(cmd) == cmd.kind = "BinaryOperation"

\* binding strength of the binary operators as the language defines it
Strength(symbol) ==
    IF symbol \in {"+", "-"} THEN 1
    ELSE IF symbol \in {"*", "/", "mod"} THEN 2
    ELSE 3

OperatorsOf(input) == {input[i].s : i \in {j \in 1..Len(input) : input[j].type = "operator"}}

\* every token of the input became the node at its position
CoversInput(cmd) ==
    /\ InOrder(cmd) = [i \in 1..(Len(tokens) - 1) |-> i]
    /\ \A n \in Nodes(cmd) : n.symbol = tokens[n.pos].s \/ n.name = tokens[n.pos].s

\* C1: an operator chain over + - * / mod parses into the tree that holds
\* every token at its place, in which no addition or subtraction is an operand
\* of * / mod, and in which the right operand of an operator is never an
\* operator of the same strength (equal strength groups left to right).
C1_LeftAssociativePrecedence ==
    (pc = "parsed" /\ "^" \notin OperatorsOf(tokens)) =>
        /\ result.ok
        /\ get(result.tk).type = "end"
        /\ CoversInput(result.cmd)
        /\ \A n \in Nodes(result.cmd) : IsBinary(n) =>
              /\ IsBinary(n.args[1]) => Strength(n.args[1].symbol) >= Strength(n.symbol)
              /\ IsBinary(n.args[2]) => Strength(n.args[2].symbol) > Strength(n.symbol)

\* a - b - c * d has been parsed as (a - b) - (c * d)
C1_Witness ==
    /\ pc = "parsed"
    /\ Len(tokens) = 8
    /\ <<tokens[2].s, tokens[4].s, tokens[6].s>> = <<"-", "-", "*">>
    /\ result.ok
    /\ result.cmd.pos = 4
    /\ result.cmd.args[1].pos = 2
    /\ result.cmd.args[2].pos = 6

\* C2: in every operator chain a power node has no binary operation as its
\* left operand and only a power node as a binary right operand, so a ^ b ^ c
\* is power(a, power(b, c)) and a power sub-tree is an operand of any
\* neighbouring * / mod + -.
C2_PowerRightAssociative ==
    (pc = "parsed" /\ "^" \in OperatorsOf(tokens)) =>
        /\ result.ok
        /\ get(result.tk).type = "end"
        /\ CoversInput(result.cmd)
        /\ \A n \in Nodes(result.cmd) : (IsBinary(n) /\ n.symbol = "^") =>
              /\ n.name = "power"
              /\ ~IsBinary(n.args[1])
              /\ IsBinary(n.args[2]) => n.args[2].symbol = "^"
        /\ \A n \in Nodes(result.cmd) : (IsBinary(n) /\ n.symbol # "^") =>
              /\ IsBinary(n.args[1]) => Strength(n.args[1].symbol) >= Strength(n.symbol)
              /\ IsBinary(n.args[2]) => Strength(n.args[2].symbol) > Strength(n.symbol)

\* a ^ b ^ c * d has been parsed as (a ^ (b ^ c)) * d
C2_Witness ==
    /\ pc = "parsed"
    /\ Len(tokens) = 8
    /\ <<tokens[2].s, tokens[4].s, tokens[6].s>> = <<"^", "^", "*">>
    /\ result.ok
    /\ result.cmd.pos = 6
    /\ result.cmd.args[1].pos = 2
    /\ result.cmd.args[1].args[2].pos = 4

-----------------------------------------------------------------------------
(* Word classification and units.                                          *)

FirstWord == tokens[1].s

\* C3: parseExpression on a word builds a Call if the word is a procedure,
\* whatever else it is; otherwise an Access if it is a variable, whatever
\* else it is; otherwise a unit if the registry knows it; otherwise it fails
\* at the word.  A Call fails only inside its argument.
C3_WordClassification ==
    (pc = "expression" /\ tokens[1].type = "word") =>
        IF FirstWord \in procedures
        THEN IF result.ok
             THEN result.cmd.kind = "Call" /\ result.cmd.name = FirstWord /\ result.cmd.pos = 1
             ELSE result.err.pos > 1
        ELSE IF FirstWord \in variables
        THEN result.ok /\ result.cmd.kind = "Access" /\ result.cmd.name = FirstWord
                       /\ result.cmd.pos = 1 /\ result.tk.pos = 2
        ELSE IF FirstWord \in registry
        THEN result.ok /\ result.cmd.kind = "AUnit" /\ result.cmd.pos = 1
        ELSE ~result.ok /\ result.err.pos = 1

\* a word that is procedure, variable and unit at once became a Call
C3_Witness ==
    /\ pc = "expression"
    /\ tokens[1].type = "word"
    /\ FirstWord \in procedures \cap variables \cap registry
    /\ result.ok
    /\ result.cmd.kind = "Call"

IsUnknownWord(token) ==
    /\ token.type = "word"
    /\ token.s \notin procedures \cup variables \cup registry

\* C4 (as claimed): an input that holds a word which is neither procedure nor
\* variable nor unit symbol never lets parseStatement return a command.
C4_UnknownWordFails ==
    (pc = "parsed" /\ \E i \in 1..Len(tokens) : IsUnknownWord(tokens[i])) => ~result.ok

\* is the token a unit symbol for the registry?
KnownUnit(token) == token.s \in registry

\* the tokens before position p form unit { ["/"] unit }
UnitShape(p) ==
    /\ p >= 2
    /\ KnownUnit(tokens[1])
    /\ \A i \in 2..(p - 1) :
          \/ KnownUnit(tokens[i])
          \/ tokens[i] = Tok("operator", "/") /\ i + 1 <= p - 1 /\ KnownUnit(tokens[i + 1])

RECURSIVE JoinedUnits(_)
\* the texts of the tokens 1..n, a blank between two units and none around "/"
JoinedUnits(n) ==
    IF n = 1 THEN tokens[1].s
    ELSE IF tokens[n].s = "/" \/ tokens[n - 1].s = "/"
         THEN JoinedUnits(n - 1) \o tokens[n].s
         ELSE JoinedUnits(n - 1) \o " " \o tokens[n].s

\* C10: parseUnit consumes a "/" exactly if the token behind it is a known
\* unit symbol: it stops at the first token that is neither a unit nor a "/"
\* followed by a unit, leaves that token as the current one, and resolves the
\* texts before it joined by " " and "/".
C10_SlashLookahead ==
    (pc = "unit" /\ KnownUnit(tokens[1])) =>
        /\ result.ok
        /\ UnitShape(result.tk.pos)
        /\ ~KnownUnit(tokens[result.tk.pos])
        /\ tokens[result.tk.pos].s = "/" => ~KnownUnit(tokens[result.tk.pos + 1])
        /\ result.cmd.name = JoinedUnits(result.tk.pos - 1)

\* parseUnit took the "/" of a / b and stopped ...
C10_Witness ==
    /\ pc = "unit"
    /\ Len(tokens) = 4
    /\ <<tokens[1].s, tokens[2].s, tokens[3].s>> = <<"a", "/", "b">>
    /\ registry = {"a", "b"}
    /\ result.ok
    /\ result.cmd.name = "a/b"
    /\ result.tk.pos = 4

-----------------------------------------------------------------------------
(* Scope: lookup.                                                          *)

RECURSIVE ChainOf(_, _)
\* the scopes a lookup from scope passes, nearest first
ChainOf(h, scope) == IF scope = 0 THEN <<>> ELSE <<scope>> \o ChainOf(h, h[scope].parent)

\* scope binds name: set, put or derive gave it a value
Binds(h, scope, name) == h[scope].values[name] \notin {absent, undefined}

\* the places of the chain that bind name
BindingPlaces(h, scope, name) ==
    {i \in 1..Len(ChainOf(h, scope)) : Binds(h, ChainOf(h, scope)[i], name)}

\* the nearest scope of the chain that binds name
NearestBinder(h, scope, name) ==
    ChainOf(h, scope)[CHOOSE i \in BindingPlaces(h, scope, name) :
                          \A j \in BindingPlaces(h, scope, name) : i <= j]

GetWithoutDefault == outcome.op = "get" /\ outcome.passed = undefined

\* C6: Scope.get(name) returns the value bound to name in the nearest scope
\* of the chain that binds it: a binding in a child shadows the ancestors'
\* bindings, and a name bound only in an ancestor is visible from every
\* descendant.
C6_NearestBinding ==
    (GetWithoutDefault /\ BindingPlaces(scopes, outcome.scope, outcome.name) # {})
        => outcome.result.value
               = scopes[NearestBinder(scopes, outcome.scope, outcome.name)].values[outcome.name]

Unbound == BindingPlaces(scopes, outcome.scope, outcome.name) = {}

\* C7 as stated: Scope.get without a default raises on a name bound nowhere
\* in the chain, and a default is returned only when the caller passed one.
C7_GetRaisesWhenUnbound ==
    /\ (GetWithoutDefault /\ Unbound) => outcome.result.kind = "throw"
    /\ (outcome.op = "get" /\ outcome.result.value = "0") => outcome.passed = "0"

\* C7 as amended: Scope.get never raises; without a default it returns
\* undefined for a name that no scope of the chain binds and Object.prototype
\* does not define, and a default is returned only when the caller passed one.
C7_GetReturnsUndefinedWhenUnbound ==
    outcome.op = "get" =>
        /\ outcome.result.kind = "return"
        /\ (outcome.passed = undefined /\ Unbound /\ outcome.name \notin ObjectPrototype)
               => outcome.result.value = undefined
        /\ outcome.result.value = "0" => outcome.passed = "0"

C7_Witness ==
    /\ GetWithoutDefault
    /\ Unbound
    /\ outcome.name = "value"
    /\ scopes[outcome.scope].parent # 0
    /\ outcome.result.value = undefined

-----------------------------------------------------------------------------
(* Scope: invoke.                                                          *)

\* the own bindings of a scope that holds exactly the arguments
BindingsOf(args) ==
    [n \in ScopeNames |-> IF args.given /\ n \in DOMAIN args.entries
                          THEN args.entries[n] ELSE absent]

\* C8: Scope.invoke runs the procedure on a newly derived scope whose own
\* bindings are exactly the arguments and whose parent is the invoking scope;
\* the invoking scope and its ancestors are as they were before the call,
\* whether the procedure returned or failed.
C8_InvokeDerivesFreshChild ==
    [][(outcome'.op \in {"invoke", "convert"} /\ outcome'.called) =>
           /\ scopes' = scopes
           /\ outcome'.derived.parent = outcome'.scope
           /\ outcome'.derived.values = BindingsOf(outcome'.args)]_vars

C8_Witness ==
    /\ outcome.op = "invoke"
    /\ outcome.called
    /\ scopes[outcome.scope].parent # 0
    /\ outcome.args = Given([n \in {"value"} |-> "1"])
    /\ outcome.behaviour = "fail"
    /\ outcome.result.kind = "throw"

\* the value the invoked name resolves to
Callee == ScopeGet(scopes, outcome.scope, outcome.name, undefined)

\* the called procedure failed ...
CalleeFails == outcome.called /\ (~IsFunction(Callee) \/ (Callee = "procedure" /\ outcome.behaviour = "fail"))

\* ... with this message
Cause ==
    IF IsFunction(Callee) THEN <<"failure">>
    ELSE <<"TypeError: implementation is not a function">>

\* the message names the procedure, and holds the whole cause after the name
NamesBeforeCause(message, name, cause) ==
    \E i \in 1..Len(message) :
        /\ message[i] = name
        /\ \E j \in (i + 1)..Len(message) :
               /\ j + Len(cause) - 1 <= Len(message)
               /\ SubSeq(message, j, j + Len(cause) - 1) = cause

\* C9: every failure raised inside a called procedure surfaces from
\* Scope.invoke, and from the evaluation of a ConvertCommand, as an error
\* whose message names the procedure before the cause and contains the cause.
C9_InvocationErrorKeepsCause ==
    (outcome.op \in {"invoke", "convert"} /\ CalleeFails) =>
        /\ outcome.result.kind = "throw"
        /\ NamesBeforeCause(outcome.result.error, outcome.name, Cause)

C9_Witness ==
    /\ outcome.op = "invoke"
    /\ CalleeFails
    /\ Callee = "procedure"
    /\ outcome.result.kind = "throw"
    /\ Len(outcome.result.error) = 5

-----------------------------------------------------------------------------
(* Composite quantity literals.                                            *)

\* the size of a unit, in the finest unit of its type of measurement
Size(unit) == CASE unit = "m" -> 1000 [] unit = "cm" -> 10 [] OTHER -> 1

\* the pairs <<unit, strictly finer unit of the same type of measurement>>
StrictlyFiner == {<<"m", "cm">>, <<"m", "mm">>, <<"cm", "mm">>}

\* the sub-unit of a unit, where it has one
SubUnitOf(unit) == CASE unit = "m" -> "cm" [] unit = "cm" -> "mm" [] OTHER -> ""

IsNumberAt(i) == tokens[i].type = "number"

IsUnitAt(i) == tokens[i].type = "word"

\* number unit number unit, the second unit strictly finer than the first
ExplicitComposite ==
    /\ Len(tokens) = 5
    /\ IsNumberAt(1) /\ IsUnitAt(2) /\ IsNumberAt(3) /\ IsUnitAt(4)
    /\ <<tokens[2].s, tokens[4].s>> \in StrictlyFiner

\* number unit number
BareComposite ==
    /\ Len(tokens) = 4
    /\ IsNumberAt(1) /\ IsUnitAt(2) /\ IsNumberAt(3)

-----------------------------------------------------------------------------
(* Calls.                                                                  *)

\* the input is p A op B
CallThenOperator ==
    /\ Len(tokens) = 5
    /\ tokens[1] = WordP
    /\ tokens[3].type = "operator"

\* C11: a call binds tighter than every binary operator: p A op B parses as
\* BinaryOperation(op, Call(p, A), B), the argument of the Call being A alone.
C11_CallBindsTighter ==
    (pc = "parsed" /\ CallThenOperator) =>
        /\ result.ok
        /\ result.cmd.kind = "BinaryOperation"
        /\ result.cmd.pos = 3
        /\ result.cmd.args[1].kind = "Call"
        /\ result.cmd.args[1].args[1].pos = 2
        /\ ~IsBinary(result.cmd.args[1].args[1])
        /\ result.cmd.args[2].pos = 4

-----------------------------------------------------------------------------
(* Map literals.                                                           *)

\* the places of the ":" of the input
ColonPlaces == {i \in 1..Len(tokens) : tokens[i] = Colon}

\* the j-th smallest element of a set of numbers
Nth(S, j) == CHOOSE i \in S : Cardinality({k \in S : k < i}) = j - 1

\* the place the j-th key starts at: behind the opening bracket or a ","
KeyPlace(j) ==
    IF j = 1 THEN 2
    ELSE Nth({i \in 1..Len(tokens) : tokens[i] = Comma}, j - 1) + 1

\* C12: a well-formed map literal with identifier or string keys parses into
\* a Map node that holds its key/value pairs in declaration order, and
\* parseKey leaves the token behind the key, the ":", as the current token.
C12_MapKeysInOrder ==
    /\ (pc = "key" /\ tokens[2] # RBrace) =>
           /\ result.ok
           /\ result.tk.pos = Nth(ColonPlaces, 1)
    /\ pc = "parsed" =>
           /\ result.ok
           /\ result.cmd.kind = "AMap"
           /\ get(result.tk).type = "end"
           /\ Len(result.cmd.args) = Cardinality(ColonPlaces)
           /\ \A j \in 1..Len(result.cmd.args) :
                  /\ result.cmd.args[j].args[1].pos = KeyPlace(j)
                  /\ result.cmd.args[j].args[2].pos = Nth(ColonPlaces, j) + 1

-----------------------------------------------------------------------------
(* Tuples and lists.                                                       *)

\* the bracket that closes the sequence the input opens
ClosingOf(open) == IF open = LParen THEN RParen ELSE RBracket

\* tokens 2..last are Statement { "," Statement }, each Statement a number:
\* numbers at the even places, "," at the odd ones
Alternates(last) ==
    \A i \in 2..last : tokens[i] = (IF i % 2 = 0 THEN Number1 ELSE Comma)

\* "(" [ Statement { "," Statement } ] ")" end, and the same with "[" "]"
WellFormedSequence ==
    LET n == Len(tokens) IN
    /\ n >= 3
    /\ tokens[n - 1] = ClosingOf(tokens[1])
    /\ Alternates(n - 2)
    /\ (n = 3 \/ tokens[n - 2] = Number1)

\* "(" Statement { "," Statement } "," ")" end: a "," no Statement follows
TrailingComma ==
    LET n == Len(tokens) IN
    /\ n >= 5
    /\ tokens[n - 1] = ClosingOf(tokens[1])
    /\ Alternates(n - 2)
    /\ tokens[n - 2] = Comma

\* "(" [ Statement { "," Statement } ] end, or closed by the other bracket
MissingClose ==
    LET n == Len(tokens) IN
    \/ /\ Alternates(n - 1)
       /\ (n = 2 \/ tokens[n - 1] = Number1)
    \/ /\ n >= 3
       /\ tokens[n - 1] \in {RParen, RBracket} \ {ClosingOf(tokens[1])}
       /\ Alternates(n - 2)
       /\ (n = 3 \/ tokens[n - 2] = Number1)

\* C13: parseTuple and parseList accept the sequences of the grammar with the
\* elements in order, the empty form included; a "," that no Statement
\* follows (a trailing comma before the closing bracket) is a parse error,
\* and a missing closing bracket is a positioned parse error.
C13_SequencesFollowGrammar ==
    (pc \in {"parsed", "expression"} /\ tokens[1] \in {LParen, LBracket}) =>
        /\ WellFormedSequence =>
               /\ result.ok
               /\ result.cmd.kind = (IF tokens[1] = LParen THEN "ATuple" ELSE "AList")
               /\ Len(result.cmd.args) = (Len(tokens) - 2) \div 2
               /\ \A j \in 1..Len(result.cmd.args) : result.cmd.args[j].pos = 2 * j
        /\ TrailingComma => ~result.ok
        /\ MissingClose =>
               /\ ~result.ok
               /\ result.err.pos \in 1..Len(tokens)

-----------------------------------------------------------------------------
(* String literals.  The modes the tokens of an input have to be read in   *)
(* follow from the input alone: a stack of the open strings and            *)
(* placeholders in front of each token.                                    *)

RECURSIVE OpenBefore(_)
\* the strings ("string") and placeholders ("placeholder") open in front of
\* token i, outermost first
OpenBefore(i) ==
    IF i = 1 THEN <<>>
    ELSE LET open == OpenBefore(i - 1)
             inString == open # <<>> /\ open[Len(open)] = "string"
             t == tokens[i - 1]
         IN  IF inString
             THEN IF t = Quote THEN SubSeq(open, 1, Len(open) - 1)
                  ELSE IF t = OpenPlaceholder THEN Append(open, "placeholder")
                  ELSE open
             ELSE IF t = Quote THEN Append(open, "string")
                  ELSE IF t = RBrace /\ open # <<>> THEN SubSeq(open, 1, Len(open) - 1)
                  ELSE open

\* the mode token i has to be requested in
ModeOf(i) ==
    LET open == OpenBefore(i) IN
    IF open # <<>> /\ open[Len(open)] = "string" THEN "string" ELSE "expression"

ExpectedModes == [i \in 1..Len(tokens) |-> ModeOf(i)]

\* the places of the segments of the string that opens at token i
SegmentPlaces(i) ==
    {j \in (i + 1)..Len(tokens) :
        /\ OpenBefore(j) = Append(OpenBefore(i), "string")
        /\ \A k \in (i + 1)..(j - 1) : Len(OpenBefore(k)) > Len(OpenBefore(i))
        /\ tokens[j] # Quote}

SegmentKind(token) ==
    IF token = OpenPlaceholder THEN "StringPlaceholderSegment"
    ELSE IF token = Reference THEN "StringReferenceSegment"
    ELSE "StringStringSegment"

\* the StringChain holds one segment per segment of the source, in source
\* order and of the kind of the source
SegmentsInOrder(chain) ==
    LET places == SegmentPlaces(chain.pos) IN
    /\ Len(chain.args) = Cardinality(places)
    /\ \A j \in 1..Len(chain.args) :
           /\ chain.args[j].pos = Nth(places, j)
           /\ chain.args[j].kind = SegmentKind(tokens[chain.args[j].pos])

\* C14: in parseString every token behind the opening delimiter is requested
\* in string mode, the tokens of the one Statement of a placeholder in
\* expression mode, the token behind the matching "}" in string mode again
\* and the token behind the closing delimiter in expression mode, in nested
\* strings as well; the StringChain holds its segments in source order.
C14_StringModes ==
    /\ pc = "parsed" =>
           /\ result.ok
           /\ result.tk.log = ExpectedModes
           /\ \A c \in Nodes(result.cmd) :
                  c.kind = "StringChain" => SegmentsInOrder(c)
           /\ \E c \in Nodes(result.cmd) : c.kind = "StringChain" /\ c.pos = 1
    /\ pc = "expression" =>
           /\ result.ok
           /\ result.tk.log = SubSeq(ExpectedModes, 1, Len(result.tk.log))
           /\ result.cmd.kind = "StringChain"
           /\ SegmentsInOrder(result.cmd)

\* a string of segments of two kinds, with a placeholder that holds a string
\* with a segment of its own, has been parsed
C14_Witness ==
    /\ pc = "parsed"
    /\ result.ok
    /\ \E i \in 1..Len(tokens) : Len(OpenBefore(i)) = 3 /\ tokens[i] # Quote
    /\ \E c \in Nodes(result.cmd) :
           /\ c.kind = "StringChain"
           /\ Len(c.args) >= 2
           /\ c.args[1].kind # c.args[2].kind

-----------------------------------------------------------------------------
(* Operators behind expressions and units.                                 *)

\* token i is a "/" that a unit follows
SlashBeforeUnit(i) ==
    /\ tokens[i] = Slash
    /\ tokens[i + 1].type # "end"
    /\ tokens[i + 1].s \in registry

\* token i is an operator behind an operand, and not a "/" a unit follows
OperatorBehindOperand(i) ==
    /\ i >= 2
    /\ tokens[i].type = "operator"
    /\ tokens[i - 1].type # "operator"
    /\ ~SlashBeforeUnit(i)

\* C15: whatever the unit registry holds, an operator token behind an
\* expression (other than a "/" a unit follows) is not consumed by parseUnit
\* or by the expression chain: parseUnit stops in front of it and
\* parseStatement makes it a BinaryOperation.
C15_OperatorNotSwallowed ==
    /\ (pc = "unit" /\ result.ok) =>
           \A i \in 2..(result.tk.pos - 1) : ~OperatorBehindOperand(i)
    /\ (pc = "parsed" /\ result.ok) =>
           \A i \in 2..(result.tk.pos - 1) :
               OperatorBehindOperand(i) =>
                   \E c \in Nodes(result.cmd) : IsBinary(c) /\ c.pos = i

-----------------------------------------------------------------------------
(* Operations.                                                             *)

\* C16: every operation the parser emits has an Operations routine of the
\* emitted name, no operation evaluates to undefined (it returns a value or
\* raises an error), and add, subtract, multiply and divide raise an error
\* when an operand is not a Quantity.
C16_OperationsDefined ==
    outcome.op = "operate" =>
        /\ outcome.called
        /\ outcome.result.kind = "return" => outcome.result.value # undefined
        /\ (/\ outcome.name \in {"add", "subtract", "multiply", "divide"}
            /\ "string" \in {outcome.passed, outcome.behaviour})
               => outcome.result.kind = "throw"

-----------------------------------------------------------------------------
(* Termination.  Parse is one step of the model, so that the parser ends   *)
(* on an input shows in the step being taken; what is stated here is the   *)
(* measure the loops go down by: the tokens left.                          *)

\* the children of every command start at tokens further and further right:
\* every iteration of the loop that collected them began behind the one before
ChildrenAdvance(cmd) ==
    \A c \in Nodes(cmd) :
        \A j \in 1..(Len(c.args) - 1) : c.args[j].pos < c.args[j + 1].pos

\* C17: parsing ends on every token sequence that ends with the end token:
\* every token request moves on by one token and none goes beyond the end
\* token, every iteration of a loop starts behind the one before, and
\* parseStatement returns a Command or raises a positioned error.
C17_ParsingTerminates ==
    pc = "parsed" =>
        /\ result.tk.pos = Len(result.tk.log)
        /\ Len(result.tk.log) <= Len(tokens)
        /\ result.ok =>
               /\ result.cmd # NoCommand
               /\ result.tk.pos >= 2
               /\ ChildrenAdvance(result.cmd)
        /\ ~result.ok =>
               /\ result.err.msg # ""
               /\ result.err.pos \in 1..Len(tokens)

\* an input that runs three times through the loop of the string and once
\* through the loop of the statement has been parsed to its end
C17_Witness ==
    /\ pc = "parsed"
    /\ result.ok
    /\ get(result.tk).type = "end"
    /\ result.tk.pos = Len(tokens)
    /\ \E c \in Nodes(result.cmd) : c.kind = "StringChain" /\ Len(c.args) = 3
    /\ \E c \in Nodes(result.cmd) : c.kind = "BinaryOperation"

====
